---- MODULE Spec2Model ----
(***************************************************************************)
(* FreshMart: order placement, vendor notification fan-out and order       *)
(* status service, modelled from the Express/Prisma server sources.        *)
(*                                                                         *)
(* Money is counted in cents (DECIMAL(10,2) scaled by 100).  One database  *)
(* statement is one atomic step; a prisma.$transaction block commits as    *)
(* one atomic step or not at all.                                          *)
(***************************************************************************)
EXTENDS Integers, Sequences, FiniteSets, Bags, TLC

VARIABLES product, cart, orders, orderItems, payments, sold, req, emitted,
          statusResp, ops, socket, reviews, reviewReq, resp, users,
          regReq, vendorProfiles, lastOp, cartResp, cartReq

vars == <<product, cart, orders, orderItems, payments, sold, req, emitted,
          statusResp, ops, socket, reviews, reviewReq, resp, users,
          regReq, vendorProfiles, lastOp, cartResp, cartReq>>

(* the user and vendor profile tables and the registrations in flight     *)
accounts == <<users, regReq, vendorProfiles>>

(* ------------------------------ bounds --------------------------------- *)
MaxStock == 2
MaxQty == 1
MaxCartQty == 2
MaxCartOps == 2
MaxCatalogOps == 1
MaxStatusOps == 1
MaxJoins == 2
MaxRating == 5

(* ------------------------------ seed data ------------------------------ *)
Customers == {"c1", "c2"}
VendorUsers == {"vu1", "vu2"}
Admins == {"a1"}
Users == Customers \cup VendorUsers \cup Admins
VendorProfiles == {"v1", "v2"}
Products == {"p1", "p2", "p3"}
Undefined == "undefined"
Sockets == {"s1", "s2"}
ReviewSlots == {"r1", "r2"}
RegSlots == {"g1", "g2"}
NewUsers == {"u1", "u2"}
NewProfiles == {"v3", "v4"}
NewProducts == {"p4"}
AddSlots == {"t1", "t2"}

(* The placeOrder requests in flight: one per customer, one more of        *)
(* customer c1 (a second submit of the checkout form) and one of a vendor. *)
Requests == Customers \cup {"c1_again", "vu1"}

Caller(k) == IF k = "c1_again" THEN "c1" ELSE k

(* the user whose session opened the socket                                *)
SocketUser(s) == IF s = "s1" THEN "c2" ELSE IF s = "s2" THEN "vu2" ELSE "vu1"

Role(u) ==
  IF u \in Customers THEN "CUSTOMER"
  ELSE IF u \in VendorUsers THEN "VENDOR" ELSE "ADMIN"

vendorProfile ==
  [v \in VendorProfiles |->
     [userId |-> IF v = "v1" THEN "vu1" ELSE "vu2", status |-> "APPROVED"]]

ProductVendor(p) == IF p = "p3" THEN "v2" ELSE "v1"
SeedPrice(p) == IF p = "p1" THEN 10 ELSE IF p = "p2" THEN 15 ELSE 25
PriceInputs == {15}
Status == {"PENDING", "APPROVED", "REJECTED", "INACTIVE"}
OrderStatus == {"PENDING", "PROCESSING", "SHIPPED", "DELIVERED", "CANCELLED"}

(* ------------------------------ helpers -------------------------------- *)
Orderings(S) ==
  {s \in [1..Cardinality(S) -> S] :
     \A i, j \in 1..Cardinality(S) : i # j => s[i] # s[j]}

Min(a, b) == IF a < b THEN a ELSE b

RECURSIVE SumSeq(_)
SumSeq(s) == IF s = <<>> THEN 0 ELSE Head(s) + SumSeq(Tail(s))

RECURSIVE ItemsTotal(_)
ItemsTotal(S) ==
  IF S = {} THEN 0
  ELSE LET x == CHOOSE y \in S : TRUE
       IN x.priceAtOrder * x.quantity + ItemsTotal(S \ {x})

RECURSIVE ItemsQty(_)
ItemsQty(S) ==
  IF S = {} THEN 0
  ELSE LET x == CHOOSE y \in S : TRUE IN x.quantity + ItemsQty(S \ {x})

DB == [product |-> product, cart |-> cart, orders |-> orders,
       orderItems |-> orderItems, payments |-> payments, sold |-> sold]

IdleReq ==
  [pc |-> "idle", bodyOk |-> TRUE, cartItems |-> <<>>, items |-> <<>>,
   totalAmount |-> 0, vendorsInOrder |-> {}, pending |-> {},
   result |-> "none", orderId |-> 0, interleaved |-> FALSE,
   overlap |-> {}, lookupFailed |-> {}]

NoResp ==
  [caller |-> "none", orderId |-> 0, status |-> "none", code |-> "none",
   before |-> "none"]

IdleReview ==
  [pc |-> "idle", caller |-> "none", productId |-> "none", rating |-> 0,
   code |-> "none", hadReview |-> FALSE, sawApproved |-> FALSE]

IdleReg ==
  [pc |-> "idle", email |-> "none", role |-> "none", shopName |-> "none",
   userId |-> "none", code |-> "none"]

IdleAdd ==
  [pc |-> "idle", caller |-> "none", productId |-> "none", quantity |-> 0,
   found |-> FALSE, code |-> "none"]

NoCart == [caller |-> "none", code |-> "none", lines |-> <<>>, at |-> 0]

EmptyResp ==
  [op |-> "none", caller |-> "none", arg |-> "none", code |-> "none",
   data |-> <<>>, total |-> 0]

(* the role column of the user row: seeded users and registered ones       *)
RoleOf(u) == IF u \in Users THEN Role(u) ELSE users[u].role

ProfilesOfUser(u) ==
  {v \in DOMAIN vendorProfiles : vendorProfiles[v].userId = u}

(* The Cart table: cart[c][p] holds the rows with customerId c and           *)
(* productId p, each row written as its quantity.  LineQty is the quantity *)
(* of the row a lookup by the (customerId, productId) key finds, 0 when    *)
(* there is none; CartKeys names every row of a customer.                  *)
LineQty(ct, c, p) == IF ct[c][p] = <<>> THEN 0 ELSE ct[c][p][1]

CartKeys(ct, c) ==
  IF c \in DOMAIN ct
  THEN UNION {{<<p, i>> : i \in 1..Len(ct[c][p])} : p \in Products}
  ELSE {}

(* the number of writes the store has taken: a response stamped with it   *)
(* is current for as long as the number stands                             *)
Writes ==
  ops.cart + ops.catalog + ops.status + Len(orders)
  + Cardinality({t \in AddSlots : cartReq[t].code = "OK"})

(* io.to(room).emit(...): the event reaches the sockets that are in the    *)
(* room when it is sent                                                    *)
Deliver(sock, e) ==
  [s \in Sockets |->
     IF e.room \in sock[s].rooms
     THEN [sock[s] EXCEPT !.received = @ \cup {e}] ELSE sock[s]]

(* every request that has read the cart but not yet run its transaction   *)
(* sees another request's write as an interleaving                         *)
Touch(r, c) ==
  [d \in DOMAIN r |->
     IF d # c /\ r[d].pc = "tx" THEN [r[d] EXCEPT !.interleaved = TRUE]
     ELSE r[d]]

(* ------------------------------ Init ----------------------------------- *)
InitStore ==
  /\ product = [p \in Products |->
                  [vendorId |-> ProductVendor(p), price |-> SeedPrice(p),
                   stock |-> IF p = "p1" THEN 1 ELSE MaxStock,
                   status |-> "APPROVED"]]
  /\ cart = [c \in Customers |-> [p \in Products |-> <<>>]]
  /\ orders = <<>>
  /\ orderItems = {}
  /\ payments = <<>>
  /\ sold = [p \in Products |-> 0]
  /\ req = [k \in Requests |-> IdleReq]
  /\ emitted = EmptyBag
  /\ statusResp = NoResp
  /\ socket = [s \in Sockets |-> [rooms |-> {}, received |-> {}]]
  /\ reviews = {}
  /\ reviewReq = [r \in ReviewSlots |-> IdleReview]
  /\ resp = EmptyResp
  /\ users = <<>>
  /\ regReq = [g \in RegSlots |-> IdleReg]
  /\ vendorProfiles = vendorProfile
  /\ lastOp = [p \in Products |-> [op |-> "seed", by |-> "none"]]
  /\ cartResp = NoCart
  /\ cartReq = [t \in AddSlots |-> IdleAdd]

(* ops counts the steps taken against each budget                          *)
Init == InitStore /\ ops = [cart |-> 0, catalog |-> 0, status |-> 0, join |-> 0]

(* the same start with room for one more status update, so that an order   *)
(* can be moved off PENDING and then moved again                           *)
InitTransitions ==
  InitStore /\ ops = [cart |-> 0, catalog |-> 0, status |-> 0 - 1, join |-> 0]

(* ----------------------- authentication pipeline ----------------------- *)
(* login: the token carries the vendor profile id of a vendor              *)
generateToken(u) ==
  [userId |-> u, role |-> RoleOf(u),
   vendorProfileId |->
     IF ProfilesOfUser(u) # {} THEN CHOOSE v \in ProfilesOfUser(u) : TRUE
     ELSE Undefined]

(* authenticateToken: req.user = { id: decoded.userId, role: decoded.role } *)
authenticateToken(token) ==
  [id |-> token.userId, role |-> token.role, vendorProfileId |-> Undefined]

authorizeRoles(roles, user) == user.role \in roles

(* --------------------------- cart controller --------------------------- *)
(* prisma.cart.upsert on the (customerId, productId) key: create the row   *)
(* with the quantity, or increment the quantity of the row that exists     *)
CartUpsert(rows, q) ==
  IF rows = <<>> THEN <<q>> ELSE [rows EXCEPT ![1] = @ + q]

(* if (quantity === 0) prisma.cart.delete, else prisma.cart.update         *)
CartUpdate(rows, q) == IF q = 0 THEN <<>> ELSE [rows EXCEPT ![1] = q]

addToCart(c, p, q) ==
  /\ ops.cart < MaxCartOps
  /\ p \in DOMAIN product
  /\ product[p].status = "APPROVED"
  /\ product[p].stock >= q
  /\ LineQty(cart, c, p) + q <= MaxCartQty
  /\ cart' = [cart EXCEPT ![c][p] = CartUpsert(@, q)]
  /\ req' = Touch(req, "none")
  /\ ops' = [ops EXCEPT !.cart = @ + 1]
  /\ UNCHANGED <<product, orders, orderItems, payments, sold, emitted,
                 statusResp>>
  /\ UNCHANGED <<socket, reviews, reviewReq, resp, cartResp, cartReq,
                 accounts, lastOp>>

updateCartItemQuantity(c, p, q) ==
  /\ ops.cart < MaxCartOps
  /\ p \in DOMAIN product
  /\ product[p].status = "APPROVED"
  /\ q <= product[p].stock
  /\ cart[c][p] # <<>>
  /\ cart' = [cart EXCEPT ![c][p] = CartUpdate(@, q)]
  /\ req' = Touch(req, "none")
  /\ ops' = [ops EXCEPT !.cart = @ + 1]
  /\ UNCHANGED <<product, orders, orderItems, payments, sold, emitted,
                 statusResp>>
  /\ UNCHANGED <<socket, reviews, reviewReq, resp, cartResp, cartReq,
                 accounts, lastOp>>

removeCartItem(c, p) ==
  /\ ops.cart < MaxCartOps
  /\ cart[c][p] # <<>>
  /\ cart' = [cart EXCEPT ![c][p] = <<>>]
  /\ req' = Touch(req, "none")
  /\ ops' = [ops EXCEPT !.cart = @ + 1]
  /\ UNCHANGED <<product, orders, orderItems, payments, sold, emitted,
                 statusResp>>
  /\ UNCHANGED <<socket, reviews, reviewReq, resp, cartResp, cartReq,
                 accounts, lastOp>>

(* addToCart statement by statement, for requests that overlap: the role  *)
(* check, cartItemSchema, the product lookup and the stock check           *)
CartFrame ==
  UNCHANGED <<product, orders, orderItems, payments, sold, req, emitted,
              statusResp, ops, socket, reviews, reviewReq, resp, accounts,
              lastOp, cartResp>>

(* cartItemSchema: quantity an integer of at least 1                       *)
cartItemSchema(q) == q >= 1

addToCartBegin(t, u, p, q) ==
  /\ cartReq[t].pc = "idle"
  /\ LET user == authenticateToken(generateToken(u))
         seen == [IdleAdd EXCEPT !.caller = u, !.productId = p,
                                 !.quantity = q]
         code ==
           IF ~authorizeRoles({"CUSTOMER"}, user) \/ user.role # "CUSTOMER"
           THEN "Forbidden"
           ELSE IF ~cartItemSchema(q) THEN "ValidationError"
           ELSE IF p \notin DOMAIN product \/ product[p].status # "APPROVED"
           THEN "NotFound"
           ELSE IF product[p].stock < q THEN "InsufficientStock"
           ELSE "ok"
     IN cartReq' = [cartReq EXCEPT ![t] =
          IF code = "ok" THEN [seen EXCEPT !.pc = "upsert"]
          ELSE [seen EXCEPT !.pc = "done", !.code = code]]
  /\ UNCHANGED cart
  /\ CartFrame

(* the upsert looks the row up by its key ...                              *)
addToCartSelect(t) ==
  /\ cartReq[t].pc = "upsert"
  /\ cartReq' = [cartReq EXCEPT
                   ![t].pc = "write",
                   ![t].found =
                     cart[cartReq[t].caller][cartReq[t].productId] # <<>>]
  /\ UNCHANGED cart
  /\ CartFrame

CartKeyFree_NoIndex(rows) == TRUE

(* CREATE UNIQUE INDEX "Cart_customerId_productId_key": an insert of a     *)
(* second row with the key is refused                                      *)
CartKeyFree(rows) == rows = <<>>

(* ... and then increments the row it found or inserts a new one; an       *)
(* update of a row that is gone and a refused insert end in the catch      *)
(* block                                                                   *)
addToCartWrite(t) ==
  /\ cartReq[t].pc = "write"
  /\ LET a == cartReq[t]
         rows == cart[a.caller][a.productId]
         ok == IF a.found THEN rows # <<>> ELSE CartKeyFree(rows)
     IN /\ cart' =
             IF ~ok THEN cart
             ELSE IF a.found
             THEN [cart EXCEPT ![a.caller][a.productId] =
                                 CartUpsert(@, a.quantity)]
             ELSE [cart EXCEPT ![a.caller][a.productId] =
                                 Append(@, a.quantity)]
        /\ cartReq' = [cartReq EXCEPT
                         ![t].pc = "done",
                         ![t].code = IF ok THEN "OK" ELSE "ServerError"]
        /\ req' = IF ok THEN Touch(req, "none") ELSE req
  /\ UNCHANGED <<product, orders, orderItems, payments, sold, emitted,
                 statusResp, ops, socket, reviews, reviewReq, resp, accounts,
                 lastOp, cartResp>>

(* -------------------------- product controller ------------------------- *)
(* updates: a partial productSchema, a record with some of price, stock    *)
updateProduct(u, p, updates) ==
  /\ ops.catalog < MaxCatalogOps
  /\ authorizeRoles({"VENDOR"}, authenticateToken(generateToken(u)))
  /\ p \in DOMAIN product
  /\ \E v \in ProfilesOfUser(u) : product[p].vendorId = v
  /\ product' = [product EXCEPT
                   ![p].price = IF "price" \in DOMAIN updates
                                THEN updates.price ELSE @,
                   ![p].stock = IF "stock" \in DOMAIN updates
                                THEN updates.stock ELSE @,
                   ![p].status = "PENDING"]
  /\ lastOp' = [lastOp EXCEPT ![p] = [op |-> "updateProduct", by |-> u]]
  /\ req' = Touch(req, "none")
  /\ ops' = [ops EXCEPT !.catalog = @ + 1]
  /\ UNCHANGED <<cart, orders, orderItems, payments, sold, emitted,
                 statusResp>>
  /\ UNCHANGED <<socket, reviews, reviewReq, resp, cartResp, cartReq, accounts>>

(* DELETE /products/:id by the vendor who owns the product.  The delete    *)
(* is refused while an order item refers to the product (ON DELETE         *)
(* RESTRICT); it takes the product's cart rows and reviews with it (ON     *)
(* DELETE CASCADE).                                                        *)
deleteProduct(u, p) ==
  /\ ops.catalog < MaxCatalogOps
  /\ authorizeRoles({"VENDOR"}, authenticateToken(generateToken(u)))
  /\ p \in DOMAIN product
  /\ \E v \in ProfilesOfUser(u) : product[p].vendorId = v
  /\ \A it \in orderItems : it.productId # p
  /\ product' = [x \in DOMAIN product \ {p} |-> product[x]]
  /\ cart' = [c \in DOMAIN cart |-> [cart[c] EXCEPT ![p] = <<>>]]
  /\ reviews' = {x \in reviews : x.productId # p}
  /\ lastOp' = [lastOp EXCEPT ![p] = [op |-> "deleteProduct", by |-> u]]
  /\ req' = Touch(req, "none")
  /\ ops' = [ops EXCEPT !.catalog = @ + 1]
  /\ UNCHANGED <<orders, orderItems, payments, sold, emitted, statusResp>>
  /\ UNCHANGED <<socket, reviewReq, resp, cartResp, cartReq, accounts>>

(* PUT /products/:id/status behind authorizeRoles(ADMIN)                    *)
approveRejectProduct(u, p, status) ==
  /\ ops.catalog < MaxCatalogOps
  /\ authorizeRoles({"ADMIN"}, authenticateToken(generateToken(u)))
  /\ status \in {"APPROVED", "REJECTED", "INACTIVE"}
  /\ p \in DOMAIN product
  /\ product' = [product EXCEPT ![p].status = status]
  /\ lastOp' = [lastOp EXCEPT
                  ![p] = [op |-> "approveRejectProduct", by |-> u]]
  /\ req' = Touch(req, "none")
  /\ ops' = [ops EXCEPT !.catalog = @ + 1]
  /\ UNCHANGED <<cart, orders, orderItems, payments, sold, emitted,
                 statusResp>>
  /\ UNCHANGED <<socket, reviews, reviewReq, resp, cartResp, cartReq, accounts>>

CatalogFrame ==
  UNCHANGED <<cart, orders, orderItems, payments, sold, req, emitted,
              statusResp, ops, socket, reviews, reviewReq, accounts,
              cartResp, cartReq>>

(* the id and row a successful createProduct inserts                       *)
NewProductId == CHOOSE id \in NewProducts \ DOMAIN product : TRUE

createProductCode_NoProfileCheck(u, bodyOk) ==
  LET user == authenticateToken(generateToken(u))
  IN IF ~authorizeRoles({"VENDOR"}, user) \/ user.role # "VENDOR"
     THEN "Forbidden"
     ELSE IF ~bodyOk THEN "ValidationError" ELSE "Created"

(* the checks of createProduct in the handler's order, the vendor profile  *)
(* being looked up by the caller's user id                                 *)
createProductCode(u, bodyOk) ==
  LET user == authenticateToken(generateToken(u))
  IN IF ~authorizeRoles({"VENDOR"}, user) \/ user.role # "VENDOR"
     THEN "Forbidden"
     ELSE IF \A v \in ProfilesOfUser(user.id) :
               vendorProfiles[v].status # "APPROVED"
     THEN "Forbidden"
     ELSE IF ~bodyOk THEN "ValidationError" ELSE "Created"

NewProductStatus_Approved == "APPROVED"

(* status: Status.PENDING in the create                                    *)
NewProductStatus == "PENDING"

createProduct(u, bodyOk, price, stock) ==
  /\ NewProducts \ DOMAIN product # {}
  /\ LET code == createProductCode(u, bodyOk)
         id == NewProductId
         v == IF ProfilesOfUser(u) = {} THEN Undefined
              ELSE CHOOSE w \in ProfilesOfUser(u) : TRUE
     IN /\ product' =
             IF code = "Created"
             THEN product @@ (id :> [vendorId |-> v, price |-> price,
                                     stock |-> stock,
                                     status |-> NewProductStatus])
             ELSE product
        /\ lastOp' =
             IF code = "Created"
             THEN lastOp @@ (id :> [op |-> "createProduct", by |-> u])
             ELSE lastOp
        /\ resp' = [op |-> "createProduct", caller |-> u, arg |-> id,
                    code |-> code, data |-> <<>>, total |-> 0]
  /\ CatalogFrame

(* product ids from the newest to the oldest createdAt                     *)
ByCreatedAtDesc == <<"p4", "p3", "p2", "p1">>

Visible_NotRejected(row) == row.status # "REJECTED"

(* where: { status: Status.APPROVED }                                      *)
Visible(row) == row.status = "APPROVED"

(* GET /products: the where clause, then skip and take                     *)
getProducts(caller, minPrice, page, limit) ==
  /\ LET Match(id) == /\ id \in DOMAIN product
                      /\ Visible(product[id])
                      /\ product[id].price >= minPrice
         rows == SelectSeq(ByCreatedAtDesc, Match)
         skip == (page - 1) * limit
     IN resp' = [op |-> "getProducts", caller |-> caller, arg |-> "all",
                 code |-> "OK",
                 data |-> SubSeq(rows, skip + 1, Min(skip + limit, Len(rows))),
                 total |-> Len(rows)]
  /\ UNCHANGED <<product, lastOp>>
  /\ CatalogFrame

(* GET /products/:id                                                       *)
getProductById(caller, id) ==
  /\ resp' = IF id \in DOMAIN product /\ Visible(product[id])
             THEN [op |-> "getProductById", caller |-> caller, arg |-> id,
                   code |-> "OK", data |-> <<id>>, total |-> 1]
             ELSE [op |-> "getProductById", caller |-> caller, arg |-> id,
                   code |-> "NotFound", data |-> <<>>, total |-> 0]
  /\ UNCHANGED <<product, lastOp>>
  /\ CatalogFrame

(* -------------------------- account controllers ------------------------ *)
AccountFrame ==
  UNCHANGED <<product, cart, orders, orderItems, payments, sold, req,
              emitted, statusResp, ops, socket, reviews, reviewReq, resp,
              cartResp, cartReq, lastOp>>

(* the e-mail column: a seeded user's e-mail is written as its id          *)
EmailTaken(email) ==
  email \in Users \/ \E x \in DOMAIN users : users[x].email = email

(* registerSchema: z.string().email()                                      *)
ValidEmail(email) == email # "bad"

(* PUT /vendors/:id/status behind authorizeRoles(ADMIN)                     *)
approveRejectVendor(u, v, status) ==
  /\ authorizeRoles({"ADMIN"}, authenticateToken(generateToken(u)))
  /\ status \in {"APPROVED", "REJECTED"}
  /\ v \in DOMAIN vendorProfiles
  /\ vendorProfiles' = [vendorProfiles EXCEPT ![v].status = status]
  /\ UNCHANGED <<users, regReq>>
  /\ AccountFrame

(* register up to the e-mail lookup                                        *)
registerBegin(g, email, role, shopName) ==
  /\ regReq[g].pc = "idle"
  /\ LET seen == [IdleReg EXCEPT !.email = email, !.role = role,
                                 !.shopName = shopName]
     IN regReq' = [regReq EXCEPT ![g] =
          IF ~ValidEmail(email)
          THEN [seen EXCEPT !.pc = "done", !.code = "ValidationError"]
          ELSE IF EmailTaken(email)
          THEN [seen EXCEPT !.pc = "done", !.code = "Conflict"]
          ELSE [seen EXCEPT !.pc = "user"]]
  /\ UNCHANGED <<users, vendorProfiles>>
  /\ AccountFrame

(* prisma.user.create; the e-mail column is unique                         *)
registerUser(g) ==
  /\ regReq[g].pc = "user"
  /\ IF EmailTaken(regReq[g].email)
     THEN /\ regReq' = [regReq EXCEPT ![g].pc = "done",
                                      ![g].code = "ServerError"]
          /\ UNCHANGED users
     ELSE LET id == CHOOSE x \in NewUsers \ DOMAIN users : TRUE
          IN /\ users' = users @@ (id :> [email |-> regReq[g].email,
                                          role |-> regReq[g].role])
             /\ regReq' = [regReq EXCEPT ![g].pc = "profile",
                                         ![g].userId = id]
  /\ UNCHANGED vendorProfiles
  /\ AccountFrame

(* if (role === Role.VENDOR) { if (!shopName) return 400 ...               *)
VendorNeedsShopName(role, shopName) == role = "VENDOR" /\ shopName = ""

(* the rest of register after the user row exists                          *)
registerProfile(g) ==
  /\ regReq[g].pc = "profile"
  /\ LET q == regReq[g]
     IN IF VendorNeedsShopName(q.role, q.shopName)
        THEN /\ regReq' = [regReq EXCEPT ![g].pc = "done",
                                         ![g].code = "ValidationError"]
             /\ UNCHANGED vendorProfiles
        ELSE /\ regReq' = [regReq EXCEPT ![g].pc = "done",
                                         ![g].code = "Created"]
             /\ vendorProfiles' =
                  IF q.role = "VENDOR"
                  THEN LET v == CHOOSE x \in NewProfiles \
                                              DOMAIN vendorProfiles : TRUE
                       IN vendorProfiles @@
                            (v :> [userId |-> q.userId, status |-> "PENDING"])
                  ELSE vendorProfiles
  /\ UNCHANGED users
  /\ AccountFrame

(* prisma.cart.findMany with the product included; the rows come back in   *)
(* an order the query does not fix                                         *)
cartFindMany(c, order) ==
  [i \in 1..Len(order) |->
     [productId |-> order[i][1], quantity |-> cart[c][order[i][1]][order[i][2]],
      product |-> product[order[i][1]]]]

validatedCart_NoCap(cartItems) ==
  LET Shown(item) == item.product.status = "APPROVED"
      kept == SelectSeq(cartItems, Shown)
  IN [i \in 1..Len(kept) |->
        [productId |-> kept[i].productId, quantity |-> kept[i].quantity]]

(* cartItems.filter(status === APPROVED).map(quantity: Math.min(quantity,  *)
(* product.stock))                                                         *)
validatedCart(cartItems) ==
  LET Shown(item) == item.product.status = "APPROVED"
      kept == SelectSeq(cartItems, Shown)
  IN [i \in 1..Len(kept) |->
        [productId |-> kept[i].productId,
         quantity |-> Min(kept[i].quantity, kept[i].product.stock)]]

(* GET /cart: a read that answers 403 to a caller who is not a customer    *)
getCart(u, order) ==
  /\ order \in Orderings(CartKeys(cart, u))
  /\ LET user == authenticateToken(generateToken(u))
     IN cartResp' =
          IF ~authorizeRoles({"CUSTOMER"}, user) \/ user.role # "CUSTOMER"
          THEN [caller |-> u, code |-> "Forbidden", lines |-> <<>>,
                at |-> Writes]
          ELSE [caller |-> u, code |-> "OK",
                lines |-> validatedCart(cartFindMany(u, order)),
                at |-> Writes]
  /\ UNCHANGED <<product, cart, orders, orderItems, payments, sold, req,
                 emitted, statusResp, ops>>
  /\ UNCHANGED <<socket, reviews, reviewReq, resp, accounts, lastOp,
                 cartReq>>

(* --------------------------- order controller -------------------------- *)
LineError_NoStockCheck(item) ==
  IF item.product.status # "APPROVED" THEN "ProductUnavailable" ELSE "ok"

LineError(item) ==
  IF item.product.status # "APPROVED" THEN "ProductUnavailable"
  ELSE IF item.quantity > item.product.stock THEN "InsufficientStock"
  ELSE "ok"

LineAmount_PriceOnly(item) == item.product.price

(* totalAmount += item.quantity * item.product.price.toNumber()           *)
LineAmount(item) == item.quantity * item.product.price

CartIsEmpty_Never(cartItems) == FALSE

CartIsEmpty(cartItems) == Len(cartItems) = 0

(* the loop over cartItems: the first failing line ends the request        *)
ValidateCart(cartItems) ==
  LET bad == {i \in 1..Len(cartItems) : LineError(cartItems[i]) # "ok"}
      first == CHOOSE i \in bad : \A j \in bad : i <= j
  IN IF bad # {}
     THEN [result |-> LineError(cartItems[first]), items |-> <<>>,
           totalAmount |-> 0, vendorsInOrder |-> {}]
     ELSE [result |-> "ok",
           items |-> [i \in 1..Len(cartItems) |->
                        [productId |-> cartItems[i].productId,
                         quantity |-> cartItems[i].quantity,
                         priceAtOrder |-> cartItems[i].product.price]],
           totalAmount |->
             SumSeq([i \in 1..Len(cartItems) |-> LineAmount(cartItems[i])]),
           vendorsInOrder |->
             {cartItems[i].product.vendorId : i \in 1..Len(cartItems)}]

placeOrderGate_ParseFirst(user, bodyOk) ==
  IF ~bodyOk THEN "ValidationError"
  ELSE IF ~authorizeRoles({"CUSTOMER"}, user) \/ user.role # "CUSTOMER"
  THEN "Forbidden"
  ELSE "ok"

(* what placeOrder does before it reads the cart: the role check of the    *)
(* route and of the handler, then createOrderSchema.parse(req.body)        *)
placeOrderGate(user, bodyOk) ==
  IF ~authorizeRoles({"CUSTOMER"}, user) \/ user.role # "CUSTOMER"
  THEN "Forbidden"
  ELSE IF ~bodyOk THEN "ValidationError"
  ELSE "ok"

(* k is the request, Caller(k) the signed-in user who sends it             *)
placeOrderBegin(k, bodyOk, order) ==
  /\ req[k].pc = "idle"
  /\ order \in Orderings(CartKeys(cart, Caller(k)))
  /\ LET c == k
         user == authenticateToken(generateToken(Caller(k)))
         gate == placeOrderGate(user, bodyOk)
         cartItems == cartFindMany(Caller(k), order)
         v == ValidateCart(cartItems)
         seen == [IdleReq EXCEPT !.bodyOk = bodyOk]
     IN req' = [req EXCEPT ![c] =
          IF gate # "ok"
          THEN [seen EXCEPT !.pc = "done", !.result = gate]
          ELSE IF CartIsEmpty(cartItems)
          THEN [seen EXCEPT !.pc = "done", !.result = "EmptyCart"]
          ELSE IF v.result # "ok"
          THEN [seen EXCEPT !.pc = "done", !.result = v.result,
                            !.cartItems = cartItems,
                            !.overlap =
                               {d \in Requests \ {c} : req[d].pc = "tx"}]
          ELSE [seen EXCEPT !.pc = "tx", !.cartItems = cartItems,
                            !.items = v.items,
                            !.totalAmount = v.totalAmount,
                            !.vendorsInOrder = v.vendorsInOrder,
                            !.overlap =
                               {d \in Requests \ {c} : req[d].pc = "tx"}]]
  /\ UNCHANGED <<product, cart, orders, orderItems, payments, sold, emitted,
                 statusResp, ops>>
  /\ UNCHANGED <<socket, reviews, reviewReq, resp, cartResp, cartReq,
                 accounts, lastOp>>

(* the writes of the transaction callback, statement by statement: the     *)
(* database after the first k of them                                      *)
TxSteps(r) == Len(r.items) + 4

TxApply(db, c, r, k) ==
  LET n == Len(r.items)
      id == Len(db.orders) + 1
      dec(p) == SumSeq([i \in 1..n |->
                  IF r.items[i].productId = p /\ i + 2 <= k
                  THEN r.items[i].quantity ELSE 0])
  IN [product |-> [p \in DOMAIN db.product |->
                     [db.product[p] EXCEPT !.stock = @ - dec(p)]],
      sold |-> [p \in Products |-> db.sold[p] + dec(p)],
      orders |-> IF k >= 1
                 THEN Append(db.orders,
                        [id |-> id, customerId |-> c,
                         totalAmount |-> r.totalAmount, status |-> "PENDING",
                         paymentStatus |-> "Pending"])
                 ELSE db.orders,
      orderItems |-> IF k >= 2
                     THEN db.orderItems \cup
                          {[orderId |-> id, productId |-> r.items[i].productId,
                            quantity |-> r.items[i].quantity,
                            priceAtOrder |-> r.items[i].priceAtOrder] :
                             i \in 1..n}
                     ELSE db.orderItems,
      cart |-> IF k >= n + 3
               THEN [db.cart EXCEPT ![c] = [p \in Products |-> <<>>]]
               ELSE db.cart,
      payments |-> IF k >= n + 4
                   THEN Append(db.payments,
                          [orderId |-> id, amount |-> r.totalAmount,
                           status |-> "Completed"])
                   ELSE db.payments]

Transaction_NoRollback(db, c, r, failAt) ==
  TxApply(db, c, r, IF failAt = 0 THEN TxSteps(r) ELSE failAt - 1)

(* prisma.$transaction: failAt = 0 is a commit, failAt = k a failure of    *)
(* the k-th statement, which rolls the earlier ones back                   *)
Transaction(db, c, r, failAt) ==
  IF failAt = 0 THEN TxApply(db, c, r, TxSteps(r)) ELSE db

(* OrderItem_productId_fkey: the insert of an order item whose product    *)
(* row is gone is refused, which fails the second statement                *)
TxFailure(db, r, failAt) ==
  IF failAt = 0
     /\ \E i \in 1..Len(r.items) : r.items[i].productId \notin DOMAIN db.product
  THEN 2 ELSE failAt

placeOrderTx(c, fault) ==
  /\ req[c].pc = "tx"
  /\ LET failAt == TxFailure(DB, req[c], fault)
         db == Transaction(DB, Caller(c), req[c], failAt)
     IN /\ product' = db.product
        /\ cart' = db.cart
        /\ orders' = db.orders
        /\ orderItems' = db.orderItems
        /\ payments' = db.payments
        /\ sold' = db.sold
  /\ req' = IF TxFailure(DB, req[c], fault) = 0
            THEN [Touch(req, c) EXCEPT
                    ![c].pc = "notifying", ![c].result = "Created",
                    ![c].orderId = Len(orders) + 1,
                    ![c].pending = req[c].vendorsInOrder]
            ELSE [req EXCEPT ![c].pc = "done", ![c].result = "ServerError"]
  /\ UNCHANGED <<emitted, statusResp, ops>>
  /\ UNCHANGED <<socket, reviews, reviewReq, resp, cartResp, cartReq,
                 accounts, lastOp>>

placeOrderCommit(c) == placeOrderTx(c, 0)

placeOrderTxFail(c, k) == k \in 1..TxSteps(req[c]) /\ placeOrderTx(c, k)

(* socket.on("joinVendorRoom"): the room a vendor client's socket joins,   *)
(* the client passing its own user id                                      *)
joinVendorRoom(vendorUserId) == <<"vendor_user", vendorUserId>>

NotificationRoom_ByProfileId(vendorProfileId) == <<"vendor", vendorProfileId>>

(* the room a newOrderNotification for a vendor profile goes to            *)
NotificationRoom(vendorProfileId) ==
  <<"vendor_user", vendorProfile[vendorProfileId].userId>>

ResultAfterNotify_Caught(result, lookupOk) ==
  IF lookupOk THEN result ELSE "ServerError"

(* the lookups run in detached async callbacks: the response has gone out  *)
(* and a rejection there reaches no catch block                            *)
ResultAfterNotify(result, lookupOk) == result

notifyVendor(c, v, lookupOk) ==
  /\ req[c].pc = "notifying"
  /\ v \in req[c].pending
  /\ LET e == [room |-> NotificationRoom(v),
                event |-> "newOrderNotification",
                orderId |-> req[c].orderId,
                itemsCount |-> Len(req[c].items)]
     IN /\ emitted' = IF lookupOk THEN emitted (+) SetToBag({e}) ELSE emitted
        /\ socket' = IF lookupOk THEN Deliver(socket, e) ELSE socket
  /\ req' = [req EXCEPT
               ![c].pending = @ \ {v},
               ![c].lookupFailed = IF lookupOk THEN @ ELSE @ \cup {v},
               ![c].result = ResultAfterNotify(@, lookupOk),
               ![c].pc = IF req[c].pending = {v} THEN "done" ELSE @]
  /\ UNCHANGED <<product, cart, orders, orderItems, payments, sold,
                 statusResp, ops>>
  /\ UNCHANGED <<reviews, reviewReq, resp, cartResp, cartReq, accounts, lastOp>>

notifyLookupFail(c, v) == notifyVendor(c, v, FALSE)

(* ------------------------- order status service ------------------------ *)
orderBelongsToVendor(orderId, vendorProfileId) ==
  \E it \in orderItems :
    it.orderId = orderId /\ product[it.productId].vendorId = vendorProfileId

StatusRank(s) ==
  CASE s = "PENDING" -> 1 [] s = "PROCESSING" -> 2 [] s = "SHIPPED" -> 3
    [] s = "DELIVERED" -> 4 [] OTHER -> 5

updateOrderStatusCode_ForwardOnly(user, orderId, status) ==
  IF status \notin OrderStatus THEN "ValidationError"
  ELSE IF user.role # "ADMIN" /\ user.role # "VENDOR" THEN "Forbidden"
  ELSE IF orderId \notin 1..Len(orders) THEN "NotFound"
  ELSE IF user.role = "VENDOR" THEN "Forbidden"
  ELSE IF StatusRank(status) <= StatusRank(orders[orderId].status)
       THEN "ValidationError"
  ELSE "OK"

updateOrderStatusCode_NoVendorBlock(user, orderId, status) ==
  IF status \notin OrderStatus THEN "ValidationError"
  ELSE IF user.role # "ADMIN" /\ user.role # "VENDOR" THEN "Forbidden"
  ELSE IF orderId \notin 1..Len(orders) THEN "NotFound"
  ELSE "OK"

(* the checks of the updateOrderStatus handler, in the handler's order     *)
updateOrderStatusCode(user, orderId, status) ==
  IF status \notin OrderStatus THEN "ValidationError"
  ELSE IF user.role # "ADMIN" /\ user.role # "VENDOR" THEN "Forbidden"
  ELSE IF orderId \notin 1..Len(orders) THEN "NotFound"
  ELSE IF user.role = "VENDOR" /\ user.vendorProfileId = Undefined
       THEN "Forbidden"
  ELSE IF user.role = "VENDOR"
          /\ ~orderBelongsToVendor(orderId, user.vendorProfileId)
       THEN "Forbidden"
  ELSE "OK"

(* socket.on("joinCustomerRoom"): the room a customer client's socket     *)
(* joins, the client passing its own user id                               *)
joinCustomerRoom(userId) == <<"customer_user", userId>>

StatusRoom_FirstCustomer(order) == <<"customer_user", "c1">>

(* io.to(`customer_user_${updatedOrder.customerId}`)                       *)
StatusRoom(order) == <<"customer_user", order.customerId>>

OrderUpdate_RefundsCancelled(order, status) ==
  [order EXCEPT !.status = status,
                !.paymentStatus = IF status = "CANCELLED" THEN "Refunded"
                                  ELSE @]

OrderUpdate_ResetsTotal(order, status) ==
  [order EXCEPT !.status = status, !.totalAmount = 0]

(* prisma.order.update({ where: { id }, data: { status } })                *)
OrderUpdate(order, status) == [order EXCEPT !.status = status]

updateOrderStatus(u, orderId, status) ==
  /\ ops.status < MaxStatusOps
  /\ LET user == authenticateToken(generateToken(u))
         code == IF ~authorizeRoles({"VENDOR", "ADMIN"}, user)
                 THEN "Forbidden"
                 ELSE updateOrderStatusCode(user, orderId, status)
         e == [room |-> StatusRoom(orders[orderId]),
               event |-> "orderStatusUpdate",
               orderId |-> orderId, newStatus |-> status]
     IN /\ orders' = IF code = "OK"
                     THEN [orders EXCEPT
                             ![orderId] = OrderUpdate(@, status)]
                     ELSE orders
        /\ emitted' = IF code = "OK" THEN emitted (+) SetToBag({e})
                      ELSE emitted
        /\ socket' = IF code = "OK" THEN Deliver(socket, e) ELSE socket
        /\ statusResp' =
             [caller |-> u, orderId |-> orderId, status |-> status,
              code |-> code,
              before |-> IF orderId \in 1..Len(orders)
                         THEN orders[orderId].status ELSE "none"]
        /\ req' = IF code = "OK" THEN Touch(req, "none") ELSE req
  /\ ops' = [ops EXCEPT !.status = @ + 1]
  /\ UNCHANGED <<product, cart, orderItems, payments, sold>>
  /\ UNCHANGED <<reviews, reviewReq, resp, cartResp, cartReq, accounts, lastOp>>

(* ----------------------------- order reads ----------------------------- *)
(* an order id as it is written in a URL                                   *)
IdParam == <<"1", "2", "3">>

(* prisma.order.findUnique({ where: { id } }): the order number, 0 if the  *)
(* id names no order                                                       *)
FindOrder(param) ==
  IF \E i \in 1..Len(orders) : i <= Len(IdParam) /\ IdParam[i] = param
  THEN CHOOSE i \in 1..Len(orders) : IdParam[i] = param
  ELSE 0

(* the ids of the orders numbered in keep, from the newest to the oldest   *)
(* createdAt                                                               *)
OrdersDesc(keep) ==
  LET n == Len(orders)
      desc == [i \in 1..n |-> n + 1 - i]
      Keep(i) == i \in keep
      kept == SelectSeq(desc, Keep)
  IN [i \in 1..Len(kept) |-> IdParam[kept[i]]]

(* getOrderDetails: 404 without the order, else isCustomer, isAdmin or     *)
(* isOrderForVendor                                                        *)
getOrderDetailsCode(user, param) ==
  LET id == FindOrder(param)
      isCustomer == user.role = "CUSTOMER" /\ orders[id].customerId = user.id
      isAdmin == user.role = "ADMIN"
      isOrderForVendor ==
        /\ user.role = "VENDOR"
        /\ user.vendorProfileId # Undefined
        /\ orderBelongsToVendor(id, user.vendorProfileId)
  IN IF id = 0 THEN "NotFound"
     ELSE IF isCustomer \/ isAdmin \/ isOrderForVendor THEN "OK"
     ELSE "Forbidden"

getOrderDetails(user, param) ==
  LET code == getOrderDetailsCode(user, param)
  IN [op |-> "getOrderDetails", caller |-> user.id, arg |-> param,
      code |-> code, data |-> IF code = "OK" THEN <<param>> ELSE <<>>,
      total |-> 0]

getMyOrders(user, param) ==
  LET Mine == {i \in 1..Len(orders) : orders[i].customerId = user.id}
      ok == authorizeRoles({"CUSTOMER"}, user)
  IN [op |-> "getMyOrders", caller |-> user.id, arg |-> param,
      code |-> IF ok THEN "OK" ELSE "Forbidden",
      data |-> IF ok THEN OrdersDesc(Mine) ELSE <<>>, total |-> 0]

getVendorOrders(user, param) ==
  LET Theirs == {i \in 1..Len(orders) :
                   orderBelongsToVendor(i, user.vendorProfileId)}
      code == IF ~authorizeRoles({"VENDOR"}, user) THEN "Forbidden"
              ELSE IF user.vendorProfileId = Undefined THEN "NotFound"
              ELSE "OK"
  IN [op |-> "getVendorOrders", caller |-> user.id, arg |-> param,
      code |-> code,
      data |-> IF code = "OK" THEN OrdersDesc(Theirs) ELSE <<>>,
      total |-> 0]

(* the GET routes of the order router, in the order they are registered    *)
OrderGetRoutes ==
  <<[path |-> "my", handler |-> "getMyOrders"],
    [path |-> ":id", handler |-> "getOrderDetails"],
    [path |-> "vendor", handler |-> "getVendorOrders"]>>

RouteMatches(route, seg) == route.path = ":id" \/ route.path = seg

(* Express hands the request to the first registered route that matches    *)
Dispatch(routes, seg) ==
  LET hits == {i \in 1..Len(routes) : RouteMatches(routes[i], seg)}
  IN routes[CHOOSE i \in hits : \A j \in hits : i <= j].handler

(* GET /api/orders/<seg> by a signed-in user                               *)
httpGetOrders(u, seg) ==
  /\ LET user == authenticateToken(generateToken(u))
         h == Dispatch(OrderGetRoutes, seg)
     IN resp' = IF h = "getMyOrders" THEN getMyOrders(user, seg)
                ELSE IF h = "getVendorOrders" THEN getVendorOrders(user, seg)
                ELSE getOrderDetails(user, seg)
  /\ UNCHANGED <<product, cart, orders, orderItems, payments, sold, req,
                 emitted, statusResp, ops, socket, reviews, reviewReq,
                 accounts, lastOp, cartResp, cartReq>>

(* what the Authorization header of a request holds                        *)
Credentials == {"missing", "garbled", "expired", "valid"}

(* verifyToken: jwt.verify throws on a token that is malformed, wrongly    *)
(* signed or expired, and the catch returns null                           *)
verifyToken(cred) == cred = "valid"

(* authenticateToken: 401 without a token, 403 when verifyToken gives      *)
(* null, else next()                                                       *)
authenticateTokenCode(cred) ==
  IF cred = "missing" THEN "Unauthorized"
  ELSE IF ~verifyToken(cred) THEN "Forbidden"
  ELSE "next"

(* GET /api/orders/<seg> with any Authorization header; u is the user the  *)
(* token was issued to                                                     *)
protectedGetOrders(cred, u, seg) ==
  IF authenticateTokenCode(cred) = "next"
  THEN httpGetOrders(u, seg)
  ELSE /\ resp' = [op |-> "authenticateToken", caller |-> "anon",
                   arg |-> cred, code |-> authenticateTokenCode(cred),
                   data |-> <<>>, total |-> 0]
       /\ UNCHANGED <<product, cart, orders, orderItems, payments, sold, req,
                      emitted, statusResp, ops, socket, reviews, reviewReq,
                      accounts, lastOp, cartResp, cartReq>>

(* --------------------------- review handler ---------------------------- *)
HasReview(rows, p, u) ==
  \E x \in rows : x.productId = p /\ x.customerId = u

ReviewKeyFree_NoIndex(rows, p, u) == TRUE

(* CREATE UNIQUE INDEX "Review_productId_customerId_key": an insert of a   *)
(* second row for the pair is refused                                      *)
ReviewKeyFree(rows, p, u) == ~HasReview(rows, p, u)

(* reviewSchema: rating an integer from 1 to 5                             *)
reviewSchema(rating) == rating >= 1 /\ rating <= MaxRating

ReviewFrame ==
  UNCHANGED <<product, cart, orders, orderItems, payments, sold, req,
              emitted, statusResp, ops, socket, resp, cartResp, cartReq,
              accounts, lastOp>>

(* addReview up to the product lookup: role check, body parse, findUnique  *)
addReviewBegin(r, u, p, rating) ==
  /\ reviewReq[r].pc = "idle"
  /\ LET user == authenticateToken(generateToken(u))
         seen == [IdleReview EXCEPT
                    !.caller = u, !.productId = p, !.rating = rating,
                    !.hadReview = HasReview(reviews, p, u),
                    !.sawApproved = p \in DOMAIN product
                                    /\ product[p].status = "APPROVED"]
         code == IF ~authorizeRoles({"CUSTOMER"}, user) THEN "Forbidden"
                 ELSE IF user.role # "CUSTOMER" THEN "Forbidden"
                 ELSE IF ~reviewSchema(rating) THEN "ValidationError"
                 ELSE IF ~seen.sawApproved THEN "NotFound"
                 ELSE "ok"
     IN reviewReq' = [reviewReq EXCEPT ![r] =
          IF code = "ok" THEN [seen EXCEPT !.pc = "check"]
          ELSE [seen EXCEPT !.pc = "done", !.code = code]]
  /\ UNCHANGED reviews
  /\ ReviewFrame

(* prisma.review.findUnique on the (product, customer) pair                *)
addReviewCheck(r) ==
  /\ reviewReq[r].pc = "check"
  /\ reviewReq' = [reviewReq EXCEPT ![r] =
       IF HasReview(reviews, reviewReq[r].productId, reviewReq[r].caller)
       THEN [@ EXCEPT !.pc = "done", !.code = "Conflict"]
       ELSE [@ EXCEPT !.pc = "create"]]
  /\ UNCHANGED reviews
  /\ ReviewFrame

(* prisma.review.create; a refused insert ends in the catch block          *)
addReviewCreate(r) ==
  /\ reviewReq[r].pc = "create"
  /\ LET q == reviewReq[r]
         free == ReviewKeyFree(reviews, q.productId, q.caller)
     IN /\ reviews' =
             IF free
             THEN reviews \cup {[id |-> r, productId |-> q.productId,
                                 customerId |-> q.caller,
                                 rating |-> q.rating]}
             ELSE reviews
        /\ reviewReq' = [reviewReq EXCEPT
                           ![r].pc = "done",
                           ![r].code = IF free THEN "Created"
                                       ELSE "ServerError"]
  /\ ReviewFrame

ReviewStep ==
  \E r \in ReviewSlots :
    \/ \E u \in {"c1", "c2", "vu1"}, p \in {"p1", "p2", "p0"},
          rating \in {0, MaxRating} : addReviewBegin(r, u, p, rating)
    \/ addReviewCheck(r)
    \/ addReviewCreate(r)

(* --------------------------- socket handlers --------------------------- *)
(* socket.on("joinCustomerRoom", userId): the socket joins the room of the *)
(* user id the client sends                                                *)
socketJoinCustomerRoom(s, userId) ==
  /\ ops.join < MaxJoins
  /\ socket' = [socket EXCEPT ![s].rooms = @ \cup {joinCustomerRoom(userId)}]
  /\ ops' = [ops EXCEPT !.join = @ + 1]
  /\ UNCHANGED <<product, cart, orders, orderItems, payments, sold, req,
                 emitted, statusResp, reviews, reviewReq, resp, cartResp,
                 cartReq, accounts, lastOp>>

socketJoinVendorRoom(s, vendorUserId) ==
  /\ ops.join < MaxJoins
  /\ socket' = [socket EXCEPT
                  ![s].rooms = @ \cup {joinVendorRoom(vendorUserId)}]
  /\ ops' = [ops EXCEPT !.join = @ + 1]
  /\ UNCHANGED <<product, cart, orders, orderItems, payments, sold, req,
                 emitted, statusResp, reviews, reviewReq, resp, cartResp,
                 cartReq, accounts, lastOp>>

(* the order tracking page of a signed-in user: it joins with user.id      *)
OrderTrackingPage(s) ==
  IF Role(SocketUser(s)) = "CUSTOMER"
  THEN socketJoinCustomerRoom(s, SocketUser(s))
  ELSE Role(SocketUser(s)) = "VENDOR"
       /\ socketJoinVendorRoom(s, SocketUser(s))

SocketStep ==
  \E s \in Sockets :
    \/ OrderTrackingPage(s)
    \/ \E u \in Customers : socketJoinCustomerRoom(s, u)
    \/ \E u \in VendorUsers : socketJoinVendorRoom(s, u)

ProductUpdates ==
  {[price |-> x] : x \in PriceInputs} \cup {[stock |-> x] : x \in {0, MaxStock}}

CartStep ==
  \E c \in Customers, p \in Products :
    \/ \E q \in 1..MaxQty : addToCart(c, p, q)
    \/ \E q \in 0..MaxQty : updateCartItemQuantity(c, p, q)
    \/ removeCartItem(c, p)

CatalogStep ==
  \E p \in Products :
    \/ \E u \in VendorUsers, upd \in ProductUpdates : updateProduct(u, p, upd)
    \/ \E u \in Users, s \in {"APPROVED", "REJECTED", "INACTIVE"} :
         approveRejectProduct(u, p, s)

PlaceOrderOf(c) ==
    \/ \E b \in BOOLEAN, o \in Orderings(CartKeys(cart, Caller(c))) :
         placeOrderBegin(c, b, o)
    \/ placeOrderCommit(c)
    \/ \E v \in VendorProfiles : notifyVendor(c, v, TRUE)

PlaceOrderStep == \E c \in Customers : PlaceOrderOf(c)

FaultStep ==
  \E c \in Customers :
    \/ \E k \in 1..(Cardinality(Products) + 4) : placeOrderTxFail(c, k)
    \/ \E v \in VendorProfiles : notifyLookupFail(c, v)

StatusStep ==
  \E u \in Users, id \in 1..2,
     s \in OrderStatus \cup {"BOGUS"} : updateOrderStatus(u, id, s)

(* the status service on the orders of one customer's checkouts            *)
NextStatus ==
  \/ \E p \in Products : addToCart("c1", p, 1)
  \/ PlaceOrderOf("c1")
  \/ StatusStep

(* checkouts of both customers followed by status updates                 *)
NextOrders ==
  \/ \E c \in Customers, p \in {"p1", "p3"} : addToCart(c, p, 1)
  \/ PlaceOrderStep
  \/ \E u \in {"a1", "vu1", "c1"}, id \in 1..2, s \in {"SHIPPED", "BOGUS"} :
       updateOrderStatus(u, id, s)

(* one customer's checkouts and status updates, with clients connected    *)
NextSockets == NextStatus \/ SocketStep

ListQueries ==
  {[minPrice |-> 0, page |-> 1, limit |-> 10],
   [minPrice |-> 15, page |-> 2, limit |-> 1]}

OrderReadStep ==
  \E u \in Users, seg \in {"1", "2", "my", "vendor"} : httpGetOrders(u, seg)

(* one customer's checkouts, read back by every kind of user               *)
NextReads ==
  \/ \E p \in Products : addToCart("c1", p, 1)
  \/ PlaceOrderOf("c1")
  \/ OrderReadStep

(* checkouts of both customers with a vendor's edits, the admin's          *)
(* moderation and status updates going on                                  *)
NextHistory ==
  \/ \E c \in Customers : addToCart(c, "p3", 1)
  \/ PlaceOrderStep
  \/ \E upd \in ProductUpdates : updateProduct("vu2", "p3", upd)
  \/ \E st \in {"APPROVED", "REJECTED"} : approveRejectProduct("a1", "p3", st)
  \/ \E id \in 1..2, st \in {"SHIPPED", "CANCELLED"} :
       updateOrderStatus("a1", id, st)

RegisterStep ==
  \E g \in RegSlots :
    \/ \E email \in {"e1", "c1", "bad"}, role \in {"CUSTOMER", "VENDOR"},
          shopName \in {"", "shop"} : registerBegin(g, email, role, shopName)
    \/ registerUser(g)
    \/ registerProfile(g)

VendorAdminStep ==
  \E u \in Users, v \in VendorProfiles \cup NewProfiles,
     st \in {"APPROVED", "REJECTED"} : approveRejectVendor(u, v, st)

(* registrations and vendor moderation                                     *)
NextAccounts == RegisterStep \/ VendorAdminStep

(* the catalogue: vendors create and edit, the admin moderates, anyone     *)
(* reads                                                                   *)
NextCatalog ==
  \/ \E shopName \in {"", "shop"} :
       registerBegin("g1", "e1", "VENDOR", shopName)
  \/ registerUser("g1") \/ registerProfile("g1")
  \/ \E v \in {"v1", "v3"}, st \in {"APPROVED", "REJECTED"} :
       approveRejectVendor("a1", v, st)
  \/ \E u \in {"vu1", "c1", "u1"}, b \in BOOLEAN :
       u \in Users \cup DOMAIN users /\ createProduct(u, b, 15, MaxStock)
  \/ \E u \in {"vu1", "vu2", "u1"}, id \in Products \cup NewProducts,
        upd \in ProductUpdates :
       u \in Users \cup DOMAIN users /\ updateProduct(u, id, upd)
  \/ \E u \in Users, id \in Products \cup NewProducts,
        st \in {"APPROVED", "REJECTED", "INACTIVE"} :
       approveRejectProduct(u, id, st)
  \/ \E caller \in {"anon", "c1"}, q \in ListQueries :
       getProducts(caller, q.minPrice, q.page, q.limit)
  \/ \E id \in Products \cup NewProducts : getProductById("anon", id)

(* reviews while the admin moderates products                             *)
NextReviews ==
  \/ ReviewStep
  \/ \E p \in Products, st \in {"APPROVED", "REJECTED", "INACTIVE"} :
       approveRejectProduct("a1", p, st)

CartReadStep ==
  \E u \in {"c1", "vu1"} :
    \E o \in Orderings(CartKeys(cart, u)) : getCart(u, o)

(* carts filled and read back while checkouts, a vendor's edits and the    *)
(* admin's moderation change stock and status                              *)
NextCartRead ==
  \/ \E p \in {"p1", "p3"} : addToCart("c1", p, 1)
  \/ addToCart("c2", "p1", 1)
  \/ updateProduct("vu1", "p1", [stock |-> 0])
  \/ approveRejectProduct("a1", "p3", "REJECTED")
  \/ PlaceOrderStep
  \/ CartReadStep

AddToCartStep ==
  \E t \in AddSlots :
    \/ \E u \in {"c1", "vu1"}, p \in {"p1", "p0"}, q \in {0, 1} :
         addToCartBegin(t, u, p, q)
    \/ addToCartSelect(t)
    \/ addToCartWrite(t)

(* one customer's cart under overlapping add-to-cart requests, quantity    *)
(* updates, removals and checkouts                                         *)
NextCart ==
  \/ AddToCartStep
  \/ \E p \in {"p1", "p3"} :
       \/ addToCart("c1", p, 1)
       \/ \E q \in 0..MaxQty : updateCartItemQuantity("c1", p, q)
       \/ removeCartItem("c1", p)
  \/ PlaceOrderOf("c1")

(* one customer's checkouts, read back with every kind of credential      *)
NextAuth ==
  \/ \E p \in Products : addToCart("c1", p, 1)
  \/ PlaceOrderOf("c1")
  \/ \E cred \in Credentials, u \in {"c1", "c2", "vu1", "a1"},
        seg \in {"1", "my", "vendor"} : protectedGetOrders(cred, u, seg)

(* one order of one customer, moved from status to status by the admin    *)
NextTransitions ==
  \/ addToCart("c1", "p1", 1)
  \/ PlaceOrderOf("c1")
  \/ \E u \in {"a1", "c1"}, s \in OrderStatus : updateOrderStatus(u, 1, s)

(* checkouts sent by a customer and by a vendor, with good and bad bodies, *)
(* on empty carts and on carts with a line the admin has rejected          *)
NextGate ==
  \/ \E p \in {"p1", "p3"} : addToCart("c1", p, 1)
  \/ approveRejectProduct("a1", "p1", "REJECTED")
  \/ updateProduct("vu2", "p3", [stock |-> 0])
  \/ \E k \in {"c1", "c2", "vu1"} : PlaceOrderOf(k)

(* one customer's checkouts while the vendor edits or deletes the product *)
(* and the admin moderates it                                              *)
NextCommit ==
  \/ \E p \in {"p1", "p3"} : addToCart("c1", p, 1)
  \/ PlaceOrderOf("c1")
  \/ \E p \in {"p1", "p3"} :
       \/ \E u \in VendorUsers, upd \in ProductUpdates :
            updateProduct(u, p, upd)
       \/ \E u \in VendorUsers : deleteProduct(u, p)
       \/ \E st \in {"REJECTED", "INACTIVE"} :
            approveRejectProduct("a1", p, st)

(* customer c1 submits the checkout twice, the requests free to overlap   *)
NextDouble ==
  \/ \E p \in {"p1", "p3"} : addToCart("c1", p, 1)
  \/ \E k \in {"c1", "c1_again"} : PlaceOrderOf(k)

(* orders of two customers for the same product, then status updates by   *)
(* the admin, cancellations among them                                     *)
NextCancel ==
  \/ \E c \in Customers : addToCart(c, "p3", 1)
  \/ PlaceOrderStep
  \/ \E id \in 1..2, st \in {"SHIPPED", "CANCELLED"} :
       updateOrderStatus("a1", id, st)

NextReliable == CartStep \/ CatalogStep \/ PlaceOrderStep

Next == NextReliable \/ FaultStep

Spec == Init /\ [][Next]_vars

SpecReliable == Init /\ [][NextReliable]_vars

SpecStatus == Init /\ [][NextStatus]_vars

SpecOrders == Init /\ [][NextOrders]_vars

SpecSockets == Init /\ [][NextSockets]_vars

SpecReviews == Init /\ [][NextReviews]_vars

SpecReads == Init /\ [][NextReads]_vars

SpecHistory == Init /\ [][NextHistory]_vars

SpecAccounts == Init /\ [][NextAccounts]_vars

SpecCatalog == Init /\ [][NextCatalog]_vars

SpecCartRead == Init /\ [][NextCartRead]_vars

SpecCart == Init /\ [][NextCart]_vars

SpecAuth == Init /\ [][NextAuth]_vars

SpecGate == Init /\ [][NextGate]_vars

SpecCommit == Init /\ [][NextCommit]_vars

SpecDouble == Init /\ [][NextDouble]_vars

SpecCancel == Init /\ [][NextCancel]_vars

SpecTransitions == InitTransitions /\ [][NextTransitions]_vars

(* ------------------------------ properties ----------------------------- *)
StoreVars == <<product, cart, orders, orderItems, payments, sold>>

ItemsOf(id, items) == {it \in items : it.orderId = id}

PaymentsOf(id, pays) == {i \in 1..Len(pays) : pays[i].orderId = id}

Finished(c) == req[c].pc \in {"notifying", "done"} /\ req[c].result = "Created"

BadLineInCart(c) ==
  \E p \in Products :
    /\ cart[c][p] # <<>>
    /\ (product[p].status # "APPROVED"
        \/ LineQty(cart, c, p) > product[p].stock)

Starts(c) == req[c].pc = "idle" /\ req'[c].pc # "idle"

(* C1: a placeOrder that commits with no other write between its cart     *)
(* read and its transaction creates one order item per cart line, with the *)
(* line's quantity and the price the call read; the order's totalAmount is *)
(* the sum of priceAtOrder * quantity over those items; every ordered      *)
(* product's stock drops by the ordered quantity; the cart is empty.       *)
C1_CheckoutPostcondition ==
  [][\A c \in Customers :
       (req[c].pc = "tx" /\ req'[c].pc = "notifying" /\ ~req[c].interleaved)
       => LET id == req'[c].orderId
              its == ItemsOf(id, orderItems')
              lines == {p \in Products : cart[c][p] # <<>>}
          IN /\ id = Len(orders') /\ Len(orders') = Len(orders) + 1
             /\ orders'[id].customerId = c
             /\ Cardinality(its) = Cardinality(lines)
             /\ \A p \in lines :
                  \E it \in its :
                    /\ it.productId = p
                    /\ it.quantity = LineQty(cart, c, p)
                    /\ \E i \in 1..Len(req[c].cartItems) :
                         /\ req[c].cartItems[i].productId = p
                         /\ it.priceAtOrder = req[c].cartItems[i].product.price
             /\ orders'[id].totalAmount = ItemsTotal(its)
             /\ \A p \in lines :
                  product'[p].stock = product[p].stock - LineQty(cart, c, p)
             /\ \A p \in Products \ lines :
                  product'[p].stock = product[p].stock
             /\ \A p \in Products : cart'[c][p] = <<>>]_vars

C1_Witness ==
  \E c \in Customers :
    /\ Finished(c) /\ ~req[c].interleaved
    /\ \E i \in 1..Len(req[c].items) : req[c].items[i].quantity = 2

(* C2: in every state each order has at least one order item and exactly   *)
(* one payment, "Completed", of the order's totalAmount, the order's own   *)
(* paymentStatus being "Pending"; every order item and payment belongs to  *)
(* an order; the stock taken by checkouts is exactly the quantity of the   *)
(* persisted order items; and a transaction that fails at any statement    *)
(* leaves the store as it was.                                             *)
C2_Inv ==
  /\ \A id \in 1..Len(orders) :
       /\ ItemsOf(id, orderItems) # {}
       /\ Cardinality(PaymentsOf(id, payments)) = 1
       /\ \A i \in PaymentsOf(id, payments) :
            /\ payments[i].status = "Completed"
            /\ payments[i].amount = orders[id].totalAmount
       /\ orders[id].paymentStatus = "Pending"
  /\ \A it \in orderItems : it.orderId \in 1..Len(orders)
  /\ \A i \in 1..Len(payments) : payments[i].orderId \in 1..Len(orders)
  /\ \A p \in Products :
       sold[p] = ItemsQty({it \in orderItems : it.productId = p})

C2_AllOrNothing ==
  /\ []C2_Inv
  /\ [][/\ (\A c \in Customers :
              (req[c].pc = "tx" /\ req'[c].result = "ServerError")
              => UNCHANGED StoreVars)
        /\ (Len(orders') > Len(orders)
            => /\ Len(payments') = Len(payments) + 1
               /\ \A p \in Products :
                    cart'[orders'[Len(orders')].customerId][p] = <<>>)]_vars

C2_Witness ==
  \E c \in Customers : req[c].result = "ServerError" /\ Len(req[c].items) = 2

(* C3: two placeOrder calls of different customers that overlap, each with *)
(* a single cart line of quantity 1 for the same APPROVED product read at  *)
(* stock 1:                                                                *)
(* exactly one is created and the other fails with InsufficientStock.      *)
C3_ExactlyOneSucceeds ==
  \A c, d \in Customers :
    (/\ c # d
     /\ d \in req[c].overlap
     /\ req[c].result # "none" /\ req[d].result # "none"
     /\ Len(req[c].cartItems) = 1 /\ Len(req[d].cartItems) = 1
     /\ req[c].cartItems[1].productId = req[d].cartItems[1].productId
     /\ req[c].cartItems[1].quantity = 1 /\ req[d].cartItems[1].quantity = 1
     /\ req[c].cartItems[1].product.stock = 1
     /\ req[d].cartItems[1].product.stock = 1
     /\ req[c].cartItems[1].product.status = "APPROVED"
     /\ req[d].cartItems[1].product.status = "APPROVED")
    => \/ req[c].result = "Created" /\ req[d].result = "InsufficientStock"
       \/ req[d].result = "Created" /\ req[c].result = "InsufficientStock"

(* C4: in every state every product's stock is at least 0.                 *)
C4_StockNonNegative == \A p \in Products : product[p].stock >= 0

(* C5 as stated: a placeOrder whose cart has a line that is not APPROVED   *)
(* or exceeds the stock fails with ProductUnavailable / InsufficientStock  *)
(* and writes nothing.                                                     *)
C5_Original ==
  [][\A c \in Customers :
       (Starts(c) /\ BadLineInCart(c))
       => /\ req'[c].result \in {"ProductUnavailable", "InsufficientStock"}
          /\ req'[c].pc = "done"
          /\ UNCHANGED StoreVars]_vars

(* C5 amended: such a placeOrder with a valid address and phone fails with *)
(* ProductUnavailable / InsufficientStock; with any body it ends at once   *)
(* and writes nothing: no order, item, payment, stock or cart change.      *)
C5_BadLineNoWrites ==
  [][\A c \in Customers :
       (Starts(c) /\ BadLineInCart(c))
       => /\ req'[c].bodyOk
             => req'[c].result \in {"ProductUnavailable", "InsufficientStock"}
          /\ ~req'[c].bodyOk => req'[c].result = "ValidationError"
          /\ req'[c].pc = "done"
          /\ UNCHANGED StoreVars]_vars

C5_Witness ==
  \E c \in Customers :
    /\ req[c].result \in {"ProductUnavailable", "InsufficientStock"}
    /\ Len(req[c].cartItems) = 2
    /\ \E i \in 1..2 : LineError(req[c].cartItems[i]) = "ok"

(* C6 as stated: placeOrder on an empty cart always fails with EmptyCart,  *)
(* changes nothing and emits nothing.                                      *)
C6_Original ==
  [][\A c \in Customers :
       (Starts(c) /\ \A p \in Products : cart[c][p] = <<>>)
       => /\ req'[c].result = "EmptyCart"
          /\ req'[c].pc = "done" /\ req'[c].pending = {}
          /\ UNCHANGED <<StoreVars, emitted>>]_vars

(* C6 amended: placeOrder on an empty cart with a valid address and phone  *)
(* fails with EmptyCart (with an invalid one: ValidationError); in both    *)
(* cases it changes nothing in the store and emits no notification.        *)
C6_EmptyCartNoWrites ==
  [][\A c \in Customers :
       (Starts(c) /\ \A p \in Products : cart[c][p] = <<>>)
       => /\ req'[c].bodyOk => req'[c].result = "EmptyCart"
          /\ ~req'[c].bodyOk => req'[c].result = "ValidationError"
          /\ req'[c].pc = "done" /\ req'[c].pending = {}
          /\ UNCHANGED <<StoreVars, emitted>>]_vars

C6_Witness == \E c \in Customers : req[c].result = "EmptyCart"

VendorsOfOrder(id) ==
  {product[it.productId].vendorId : it \in ItemsOf(id, orderItems)}

NewOrderEvents(id, room) ==
  {e \in BagToSet(emitted) :
     e.event = "newOrderNotification" /\ e.orderId = id /\ e.room = room}

(* C7: every newOrderNotification carries the id of a committed order and  *)
(* goes, once, to the room joined by the user of a vendor owning one of    *)
(* the order's products; when a successful placeOrder is done each vendor  *)
(* of the order has exactly one, and a placeOrder that fails has none.     *)
C7_VendorNotification ==
  /\ \A e \in BagToSet(emitted) :
       e.event = "newOrderNotification"
       => /\ e.orderId \in 1..Len(orders)
          /\ CopiesIn(e, emitted) = 1
          /\ \E v \in VendorsOfOrder(e.orderId) :
               e.room = joinVendorRoom(vendorProfile[v].userId)
  /\ \A c \in Customers :
       /\ (req[c].pc = "done" /\ req[c].result = "Created")
          => \A v \in VendorProfiles :
               Cardinality(NewOrderEvents(req[c].orderId,
                             joinVendorRoom(vendorProfile[v].userId)))
                 = IF v \in VendorsOfOrder(req[c].orderId) THEN 1 ELSE 0
       /\ req[c].result # "Created" => req[c].pending = {}

C7_Witness ==
  \E c \in Customers :
    /\ req[c].pc = "done" /\ req[c].result = "Created"
    /\ Len(req[c].items) = 2 /\ Cardinality(req[c].vendorsInOrder) = 1

(* C8: when a vendor lookup or emit fails after the commit, the request    *)
(* still reports the created order, and the order, its items, its payment, *)
(* the stocks and the carts are left as committed.                         *)
C8_NotifyFailureKeepsOrder ==
  [][\A c \in Customers :
       (req[c].pc = "notifying" /\ req'[c].lookupFailed # req[c].lookupFailed)
       => /\ req'[c].result = "Created"
          /\ req'[c].orderId = req[c].orderId
          /\ UNCHANGED StoreVars
          /\ req[c].orderId \in 1..Len(orders)
          /\ orders[req[c].orderId].customerId = c
          /\ Cardinality(ItemsOf(req[c].orderId, orderItems))
               = Len(req[c].items)
          /\ Cardinality(PaymentsOf(req[c].orderId, payments)) = 1]_vars

C8_Witness ==
  \E c \in Customers :
    req[c].pc = "done" /\ req[c].lookupFailed # {} /\ req[c].result = "Created"

OwnsItemOf(u, id) ==
  \E v \in VendorProfiles :
    vendorProfile[v].userId = u /\ orderBelongsToVendor(id, v)

(* C9: updateOrderStatus with a valid status on an existing order succeeds *)
(* and persists the status when the caller is an ADMIN or a VENDOR whose   *)
(* profile owns the product of one of the order's items.                   *)
C9_AuthorizedUpdateSucceeds ==
  (/\ statusResp.caller \in Users
   /\ statusResp.status \in OrderStatus
   /\ statusResp.orderId \in 1..Len(orders)
   /\ \/ Role(statusResp.caller) = "ADMIN"
      \/ Role(statusResp.caller) = "VENDOR"
         /\ OwnsItemOf(statusResp.caller, statusResp.orderId))
  => /\ statusResp.code = "OK"
     /\ orders[statusResp.orderId].status = statusResp.status

NotEntitled(u, id) ==
  /\ id \in 1..Len(orders)
  /\ \/ Role(u) = "CUSTOMER"
     \/ Role(u) = "VENDOR" /\ ~OwnsItemOf(u, id)

(* C10 as stated: updateOrderStatus by a customer, or by a vendor with no  *)
(* product in the order, fails with Forbidden, leaves the status alone and *)
(* emits nothing.                                                          *)
C10_Original ==
  [][(ops'.status # ops.status
      /\ NotEntitled(statusResp'.caller, statusResp'.orderId))
     => /\ statusResp'.code = "Forbidden"
        /\ orders' = orders /\ emitted' = emitted]_vars

(* C10 amended: such a call fails, leaves the order's status unchanged and *)
(* emits nothing; the failure is Forbidden for every customer, and for the *)
(* vendor whenever the status sent is a valid one (an invalid status from  *)
(* the vendor is a ValidationError).                                       *)
C10_ForbiddenUpdate ==
  [][(ops'.status # ops.status
      /\ NotEntitled(statusResp'.caller, statusResp'.orderId))
     => /\ statusResp'.code =
             IF Role(statusResp'.caller) = "VENDOR"
                /\ statusResp'.status \notin OrderStatus
             THEN "ValidationError" ELSE "Forbidden"
        /\ orders' = orders /\ emitted' = emitted]_vars

C10_Witness ==
  /\ statusResp.caller \in VendorUsers
  /\ statusResp.orderId \in 1..Len(orders)
  /\ statusResp.status \in OrderStatus
  /\ ~OwnsItemOf(statusResp.caller, statusResp.orderId)
  /\ \E v \in VendorProfiles :
       vendorProfile[v].userId = statusResp.caller
       /\ \E p \in Products : product[p].vendorId = v
  /\ statusResp.code = "Forbidden"

StatusEvents == {e \in BagToSet(emitted) : e.event = "orderStatusUpdate"}

(* C11: an updateOrderStatus that succeeds adds exactly one event to the   *)
(* events sent, an orderStatusUpdate to the room joined by the customer    *)
(* who owns the order, with the order's id and the status now persisted;   *)
(* one that fails adds none; and every orderStatusUpdate ever sent is in   *)
(* the room of the owner of the order it names.                            *)
C11_StatusEvent ==
  /\ [](\A e \in StatusEvents :
          /\ e.orderId \in 1..Len(orders)
          /\ e.room = joinCustomerRoom(orders[e.orderId].customerId)
          /\ \A c \in Customers :
               c # orders[e.orderId].customerId => e.room # joinCustomerRoom(c))
  /\ [][ops'.status # ops.status
        => IF statusResp'.code = "OK"
           THEN LET id == statusResp'.orderId
                IN emitted' = emitted (+)
                     SetToBag({[room |->
                                  joinCustomerRoom(orders'[id].customerId),
                                event |-> "orderStatusUpdate",
                                orderId |-> id,
                                newStatus |-> orders'[id].status]})
           ELSE emitted' = emitted]_vars

C11_Witness ==
  /\ statusResp.code = "OK"
  /\ orders[statusResp.orderId].customerId = "c2"
  /\ Len(orders) = 2
  /\ \E e \in StatusEvents : e.orderId = statusResp.orderId

ConcernsUser(e, u) ==
  /\ e.orderId \in 1..Len(orders)
  /\ IF e.event = "orderStatusUpdate"
     THEN orders[e.orderId].customerId = u
     ELSE \E v \in VendorsOfOrder(e.orderId) : vendorProfile[v].userId = u

(* C12: a socket is only ever in the rooms keyed by the id of the user     *)
(* whose session opened it; an event reaches only sockets in the room it   *)
(* is addressed to; so an orderStatusUpdate reaches only sockets of the    *)
(* customer owning the order and a newOrderNotification only sockets of a  *)
(* vendor with a product in the order.                                     *)
C12_ChannelIsolation ==
  \A s \in Sockets :
    /\ socket[s].rooms \subseteq {joinCustomerRoom(SocketUser(s)),
                                  joinVendorRoom(SocketUser(s))}
    /\ \A e \in socket[s].received :
         /\ e.room \in socket[s].rooms
         /\ ConcernsUser(e, SocketUser(s))

AtMostOneReview ==
  \A x, y \in reviews :
    (x.productId = y.productId /\ x.customerId = y.customerId) => x = y

ReviewEnds(r) == reviewReq[r].pc # "done" /\ reviewReq'[r].pc = "done"

(* C13 as stated: at most one review per (product, customer) pair, and an  *)
(* addReview of a customer who has a review of the product when the call   *)
(* starts fails with Conflict and creates no review.                       *)
C13_Original ==
  /\ []AtMostOneReview
  /\ [][\A r \in ReviewSlots :
         (ReviewEnds(r) /\ reviewReq'[r].hadReview)
         => reviewReq'[r].code = "Conflict" /\ reviews' = reviews]_vars

(* C13 amended: at most one review per pair in every state; an addReview   *)
(* of a customer who has a review of the product when the call starts      *)
(* creates no review and fails: with ValidationError when the rating is    *)
(* out of range, else NotFound when the product is not APPROVED, else      *)
(* Conflict; and a call whose insert meets a review made since its         *)
(* duplicate check fails with ServerError and creates none.                *)
C13_OneReviewPerPair ==
  /\ []AtMostOneReview
  /\ [][\A r \in ReviewSlots :
         ReviewEnds(r)
         => /\ reviewReq'[r].hadReview
               => /\ reviews' = reviews
                  /\ reviewReq'[r].code =
                       IF ~reviewSchema(reviewReq'[r].rating)
                       THEN "ValidationError"
                       ELSE IF ~reviewReq'[r].sawApproved THEN "NotFound"
                       ELSE "Conflict"
            /\ (reviewReq[r].pc = "create"
                /\ HasReview(reviews, reviewReq[r].productId,
                             reviewReq[r].caller))
               => /\ reviews' = reviews
                  /\ reviewReq'[r].code = "ServerError"
            /\ reviewReq'[r].code = "Created"
               => /\ Cardinality(reviews') = Cardinality(reviews) + 1
                  /\ ~HasReview(reviews, reviewReq[r].productId,
                                reviewReq[r].caller)]_vars

C13_Witness ==
  \E r1, r2 \in ReviewSlots :
    /\ reviewReq[r1].code = "Created"
    /\ reviewReq[r2].code = "ServerError"
    /\ reviewReq[r2].caller = reviewReq[r1].caller
    /\ reviewReq[r2].productId = reviewReq[r1].productId

Answers(op) == resp' # resp /\ resp'.op = op

(* C14: a product listing holds only products whose status is APPROVED,    *)
(* all of them that match the query being counted; get-product-by-id       *)
(* answers OK exactly for an APPROVED product and, for a product in any    *)
(* other status, NotFound with the same empty body as for an id that has   *)
(* no product.                                                             *)
C14_OnlyApprovedVisible ==
  [][/\ Answers("getProducts")
        => /\ \A i \in 1..Len(resp'.data) :
                /\ resp'.data[i] \in DOMAIN product
                /\ product[resp'.data[i]].status = "APPROVED"
           /\ resp'.total <= Cardinality({id \in DOMAIN product :
                                 product[id].status = "APPROVED"})
           /\ resp'.code = "OK"
     /\ Answers("getProductById")
        => IF resp'.arg \in DOMAIN product
              /\ product[resp'.arg].status = "APPROVED"
           THEN resp'.code = "OK" /\ resp'.data = <<resp'.arg>>
           ELSE /\ resp'.code = "NotFound"
                /\ resp'.data = <<>> /\ resp'.total = 0]_vars

C14_Witness ==
  /\ resp.op = "getProductById" /\ resp.code = "NotFound"
  /\ resp.arg \in DOMAIN product
  /\ product[resp.arg].status = "PENDING"
  /\ lastOp[resp.arg].op = "updateProduct"

C15_Inv ==
  \A id \in DOMAIN product :
    /\ lastOp[id].op \in {"createProduct", "updateProduct"}
       => product[id].status = "PENDING"
    /\ product[id].status = "APPROVED"
       => lastOp[id].op \in {"seed", "approveRejectProduct"}
    /\ lastOp[id].op = "approveRejectProduct"
       => RoleOf(lastOp[id].by) = "ADMIN"
    /\ lastOp[id].op = "updateProduct" => RoleOf(lastOp[id].by) = "VENDOR"

(* C15: a created product is PENDING; a product whose last operation was a *)
(* vendor edit is PENDING; a step that moves a product to APPROVED,        *)
(* REJECTED or INACTIVE is a status update by an ADMIN; so the last        *)
(* status-affecting operation on an APPROVED product is an admin approval  *)
(* (or it is a seeded, already approved row).                              *)
C15_ProductStatusLifecycle ==
  /\ []C15_Inv
  /\ [][/\ \A id \in DOMAIN product' \ DOMAIN product :
             product'[id].status = "PENDING"
        /\ \A id \in DOMAIN product :
             product'[id].status # product[id].status
             => IF product'[id].status = "PENDING"
                THEN lastOp'[id].op = "updateProduct"
                ELSE /\ lastOp'[id].op = "approveRejectProduct"
                     /\ RoleOf(lastOp'[id].by) = "ADMIN"]_vars

C15_Witness ==
  /\ "p4" \in DOMAIN product
  /\ product["p4"].status = "APPROVED"
  /\ lastOp["p4"] = [op |-> "approveRejectProduct", by |-> "a1"]

ApprovedVendor(u) ==
  /\ RoleOf(u) = "VENDOR"
  /\ \E v \in ProfilesOfUser(u) : vendorProfiles[v].status = "APPROVED"

(* C16: a createProduct that succeeds was called by a VENDOR whose vendor  *)
(* profile exists and is APPROVED; a call by anyone else fails with        *)
(* Forbidden; and only a successful call adds a product.                   *)
C16_CreateProductNeedsApprovedVendor ==
  [][Answers("createProduct")
     => /\ resp'.code = "Created" => ApprovedVendor(resp'.caller)
        /\ ~ApprovedVendor(resp'.caller) => resp'.code = "Forbidden"
        /\ IF resp'.code = "Created"
           THEN /\ DOMAIN product' = DOMAIN product \cup {resp'.arg}
                /\ resp'.arg \notin DOMAIN product
                /\ vendorProfiles[product'[resp'.arg].vendorId].userId
                     = resp'.caller
           ELSE product' = product]_vars

C16_Witness ==
  /\ resp.op = "createProduct" /\ resp.code = "Forbidden"
  /\ RoleOf(resp.caller) = "VENDOR"
  /\ \E v \in ProfilesOfUser(resp.caller) :
       vendorProfiles[v].status = "REJECTED"

MayView(u, id) ==
  \/ Role(u) = "CUSTOMER" /\ orders[id].customerId = u
  \/ Role(u) = "ADMIN"
  \/ Role(u) = "VENDOR" /\ OwnsItemOf(u, id)

(* C17: getOrderDetails answers NotFound for an id with no order, OK with  *)
(* the order for the customer who owns it, an ADMIN, or a VENDOR whose     *)
(* profile owns the product of one of its items, and Forbidden for every   *)
(* other signed-in caller.                                                 *)
C17_OrderDetailsAuthorization ==
  [][Answers("getOrderDetails")
     => LET id == FindOrder(resp'.arg)
        IN resp'.code = IF id = 0 THEN "NotFound"
                        ELSE IF MayView(resp'.caller, id) THEN "OK"
                        ELSE "Forbidden"]_vars

VendorOrderIds(u) ==
  {IdParam[i] : i \in {j \in 1..Len(orders) : OwnsItemOf(u, j)}}

(* C18: GET /orders/vendor by a signed-in VENDOR is answered by the vendor *)
(* order listing, with exactly the orders that have an item whose product  *)
(* belongs to the vendor's profile.                                        *)
C18_VendorOrdersRoute ==
  [][(resp' # resp /\ resp'.arg = "vendor"
      /\ resp'.caller \in Users /\ Role(resp'.caller) = "VENDOR")
     => /\ resp'.op = "getVendorOrders"
        /\ resp'.code = "OK"
        /\ {resp'.data[i] : i \in 1..Len(resp'.data)}
             = VendorOrderIds(resp'.caller)]_vars

NoRegistrationInFlight == \A g \in RegSlots : regReq[g].pc \in {"idle", "done"}

(* C19: whenever no registration is in progress, every registered user     *)
(* with role VENDOR has exactly one vendor profile, and a registration     *)
(* that returned an error has created no user and no vendor profile.       *)
C19_VendorHasOneProfile ==
  NoRegistrationInFlight
  => /\ \A u \in DOMAIN users :
          users[u].role = "VENDOR" => Cardinality(ProfilesOfUser(u)) = 1
     /\ \A g \in RegSlots :
          (regReq[g].pc = "done" /\ regReq[g].code # "Created")
          => regReq[g].userId = "none"

(* C20: no step changes or removes an order item that exists (its product, *)
(* quantity and priceAtOrder stay as written) or the totalAmount or the    *)
(* customer of an order that exists, whatever happens to the products.     *)
C20_OrderSnapshotImmutable ==
  [][/\ orderItems \subseteq orderItems'
     /\ Len(orders') >= Len(orders)
     /\ \A id \in 1..Len(orders) :
          /\ orders'[id].totalAmount = orders[id].totalAmount
          /\ orders'[id].customerId = orders[id].customerId
          /\ ItemsOf(id, orderItems') = ItemsOf(id, orderItems)]_vars

C20_Witness ==
  /\ Len(orders) = 2
  /\ \E it \in orderItems :
       /\ product[it.productId].price # it.priceAtOrder
       /\ orders[it.orderId].status = "SHIPPED"

ShownLines(u) ==
  {p \in Products : cart[u][p] # <<>> /\ product[p].status = "APPROVED"}

(* C21: getCart answers a customer with exactly one line for each stored   *)
(* cart line of that customer whose product is APPROVED, its quantity the  *)
(* smaller of the stored quantity and the product's stock; it answers      *)
(* anyone else Forbidden with no line; and it changes no cart line.        *)
C21_CartRead ==
  [][cartResp' # cartResp
     => LET u == cartResp'.caller
            lines == cartResp'.lines
        IN /\ cart' = cart /\ product' = product
           /\ IF RoleOf(u) = "CUSTOMER"
              THEN /\ cartResp'.code = "OK"
                   /\ Len(lines) = Cardinality(ShownLines(u))
                   /\ {lines[i] : i \in 1..Len(lines)} =
                        {[productId |-> p,
                          quantity |-> Min(LineQty(cart, u, p),
                                           product[p].stock)] :
                           p \in ShownLines(u)}
              ELSE cartResp'.code = "Forbidden" /\ lines = <<>>]_vars

C21_Witness ==
  /\ cartResp.code = "OK" /\ cartResp.at = Writes
  /\ \E i \in 1..Len(cartResp.lines) :
       cartResp.lines[i].quantity
         < LineQty(cart, cartResp.caller, cartResp.lines[i].productId)

(* C22: in every state each (customer, product) pair has at most one cart  *)
(* row and every cart row has a quantity of at least 1, whatever the       *)
(* interleaving of add-to-cart, update-quantity, remove-item and           *)
(* placeOrder; a step that changes the rows of a pair leaves either no row *)
(* (so an update to quantity 0 stores nothing) or one row of quantity >= 1.*)
C22_Inv ==
  \A c \in Customers, p \in Products :
    /\ Len(cart[c][p]) <= 1
    /\ \A i \in 1..Len(cart[c][p]) : cart[c][p][i] >= 1

C22_CartLines ==
  /\ []C22_Inv
  /\ [][\A c \in Customers, p \in Products :
          cart'[c][p] # cart[c][p]
          => \/ cart'[c][p] = <<>>
             \/ Len(cart'[c][p]) = 1 /\ cart'[c][p][1] >= 1]_vars

C22_Witness ==
  \E t1, t2 \in AddSlots :
    /\ cartReq[t1].code = "OK" /\ cartReq[t2].code = "ServerError"
    /\ ~cartReq[t2].found
    /\ cart[cartReq[t1].caller][cartReq[t1].productId] = <<1>>

(* C23: a request to a protected endpoint that the authentication          *)
(* middleware turns away (its credential missing, malformed or expired)    *)
(* is answered Unauthorized; so every Forbidden answer is one given to a   *)
(* caller with a valid credential, by a role or ownership check.           *)
C23_UnauthorizedVsForbidden ==
  [][resp' # resp
     => /\ resp'.op = "authenticateToken" => resp'.code = "Unauthorized"
        /\ resp'.code = "Forbidden" => resp'.op # "authenticateToken"]_vars

(* C24: an ADMIN's updateOrderStatus with any of the five statuses on an   *)
(* order that exists succeeds and leaves the order in that status,         *)
(* whatever status the order was in: the same one, an earlier one or a     *)
(* later one.                                                              *)
C24_AnyTransition ==
  [][(/\ ops'.status # ops.status
      /\ RoleOf(statusResp'.caller) = "ADMIN"
      /\ statusResp'.status \in OrderStatus
      /\ statusResp'.orderId \in 1..Len(orders))
     => /\ statusResp'.code = "OK"
        /\ statusResp'.before = orders[statusResp'.orderId].status
        /\ orders'[statusResp'.orderId].status = statusResp'.status]_vars

C24_Witness ==
  /\ statusResp.code = "OK" /\ statusResp.caller = "a1"
  /\ statusResp.before = "DELIVERED" /\ statusResp.status = "PENDING"
  /\ orders[statusResp.orderId].status = "PENDING"

LineCheck(item) ==
  IF item.product.status # "APPROVED" THEN "ProductUnavailable"
  ELSE IF item.quantity > item.product.stock THEN "InsufficientStock"
  ELSE "ok"

(* C25: a placeOrder by a caller who is not a customer ends Forbidden,     *)
(* whatever its body and cart; else one with a bad address or phone ends   *)
(* ValidationError, whatever its cart; else one on an empty cart ends      *)
(* EmptyCart; else it ends with the error of the first cart line, in the   *)
(* order the cart was read in, that fails its product check, and goes on   *)
(* to the transaction only when no line fails.                             *)
C25_CheckOrder ==
  [][\A k \in Requests :
       Starts(k)
       => LET r == req'[k]
              n == Len(r.cartItems)
          IN IF RoleOf(Caller(k)) # "CUSTOMER"
             THEN r.pc = "done" /\ r.result = "Forbidden"
             ELSE IF ~r.bodyOk
             THEN r.pc = "done" /\ r.result = "ValidationError"
             ELSE IF CartKeys(cart, Caller(k)) = {}
             THEN r.pc = "done" /\ r.result = "EmptyCart"
             ELSE /\ n = Cardinality(CartKeys(cart, Caller(k)))
                  /\ IF \A i \in 1..n : LineCheck(r.cartItems[i]) = "ok"
                     THEN r.pc = "tx" /\ r.result = "none"
                     ELSE /\ r.pc = "done"
                          /\ \E i \in 1..n :
                               /\ r.result = LineCheck(r.cartItems[i])
                               /\ r.result # "ok"
                               /\ \A j \in 1..(i - 1) :
                                    LineCheck(r.cartItems[j]) = "ok"]_vars

C25_Witness ==
  /\ req["vu1"].result = "Forbidden" /\ ~req["vu1"].bodyOk
  /\ req["c2"].result = "ValidationError" /\ CartKeys(cart, "c2") = {}
  /\ req["c1"].result = "ProductUnavailable" /\ Len(req["c1"].cartItems) = 2
  /\ LineCheck(req["c1"].cartItems[1]) = "ok"

Commits(k) == req[k].pc = "tx" /\ req'[k].pc = "notifying"

(* C26: when a placeOrder transaction commits, the product of every order  *)
(* item it creates exists and is APPROVED, whatever vendor edit, admin     *)
(* status change or product deletion has come between the request's cart   *)
(* validation and its transaction.                                         *)
C26_ApprovedAtCommit ==
  [][\A k \in Requests :
       Commits(k)
       => \A it \in orderItems' \ orderItems :
            /\ it.productId \in DOMAIN product'
            /\ product'[it.productId].status = "APPROVED"]_vars

Overlap(k, j) == j \in req[k].overlap \/ k \in req[j].overlap

(* C27: of two placeOrder calls of the same customer that overlap (the     *)
(* second reads the cart before the first has run its transaction) at most *)
(* one creates an order, so no cart line is ordered twice and no product's *)
(* stock is taken twice for it.                                            *)
C27_NoDoubleOrder ==
  \A k, j \in Requests :
    (k # j /\ Caller(k) = Caller(j) /\ Overlap(k, j))
    => ~(req[k].result = "Created" /\ req[j].result = "Created")

OrderedQty(r, p) ==
  SumSeq([i \in 1..Len(r.items) |->
            IF r.items[i].productId = p THEN r.items[i].quantity ELSE 0])

(* C28: the cart lines a committing placeOrder deletes are the lines that  *)
(* became its order items, with the same quantities: for every product the *)
(* quantity in the customer's cart just before the commit is the quantity  *)
(* the order holds of it, also when the customer has added to the cart or  *)
(* changed a quantity since the request read the cart.                     *)
C28_DeletedLinesAreOrdered ==
  [][\A k \in Requests :
       Commits(k)
       => \A p \in Products :
            /\ cart'[Caller(k)][p] = <<>>
            /\ LineQty(cart, Caller(k), p) = OrderedQty(req[k], p)]_vars

LinesOf(seq) ==
  {[productId |-> seq[i].productId, quantity |-> seq[i].quantity] :
     i \in 1..Len(seq)}

(* C29: when a customer's getCart has answered with at least one line and  *)
(* nothing has been written since, every line it returned has a quantity   *)
(* of at least 1, and a placeOrder the customer then sends with a valid     *)
(* address and phone passes validation with exactly the returned lines and *)
(* quantities as its order items.                                          *)
C29_ReadThenOrder ==
  /\ [](cartResp.code = "OK"
        => \A i \in 1..Len(cartResp.lines) : cartResp.lines[i].quantity >= 1)
  /\ [][\A c \in Customers :
          (/\ Starts(c) /\ req'[c].bodyOk
           /\ cartResp.caller = c /\ cartResp.code = "OK"
           /\ cartResp.lines # <<>> /\ cartResp.at = Writes)
          => /\ req'[c].pc = "tx"
             /\ LinesOf(req'[c].items) = LinesOf(cartResp.lines)
             /\ Len(req'[c].items) = Len(cartResp.lines)]_vars

====
